---- MODULE Spec2Model ----
(***************************************************************************)
(* repo-sync: the APT variant (src/apt-repo-sync.py) and the DNF variant   *)
(* (src/dnf-repo-sync.py) of the selective repository synchronisation.     *)
(*                                                                         *)
(* A Python string is a sequence of chunks (atomic pieces of text); "/" is *)
(* a chunk of its own, so that an f-string is a concatenation (\o) and a   *)
(* path's directories are found by looking for the "/" chunks.  An rsync   *)
(* option is such a string, a command a sequence of them.                  *)
(***************************************************************************)
EXTENDS Integers, Sequences, FiniteSets, TLC

VARIABLES
    variant,        \* "apt" or "dnf": which script runs
    config,         \* config[variant]['repositories']
    retry_settings, \* config['dnf']['retry_settings']
    upstream,       \* what the upstream holds, by binary-<arch> directory; a directory
                    \* that is not in its domain may hold anything at each transfer
    runs,           \* how many times the script is run, one run after the other
    previous,       \* the outcomes of the runs that have ended before this one
    requests,       \* history, kept when runs > 1: the calls of rsync_execute of this
                    \* run, each with the lines of its list file
    counting,       \* whether the invocations of rsync are counted
    invocations,    \* history, kept when counting: how many times this run has
                    \* invoked rsync
    pc,             \* position in run(): "run", "meta", "extract", "pool", "done";
                    \* "exit" once the process has exited
    repoIdx,        \* run(): index of the repository of the for loop
    pos,            \* sync_dists / sync_repository_data: index of the next request
    ex,             \* the frame of rsync_execute
    tree,           \* the destination tree: binary-<arch> directory -> its index files
    dirs,           \* the directories dest.mkdir has made
    package_files,  \* sync_repository: the set extract_package_files returned
    opened,         \* history: the index files the extraction opened, as <<directory, format>>
    temp_file,      \* sync_pool: the lines of the temporary list file, or NoTemp
    success_count,  \* run()
    fail_count,     \* run()
    exit_ok,        \* the value run() returned, FALSE while it is running
    exit_code,      \* main(): the status given to sys.exit, -1 while the process runs
    raised,         \* the exception that reached main(), "none" if there is none
    results,        \* history: what sync_repository returned, per repository
    trace           \* history: the requests and the extraction of the current repository

vars == <<variant, config, retry_settings, upstream, runs, previous, requests,
          counting, invocations, pc, repoIdx, pos, ex, tree, dirs, package_files,
          opened, temp_file, success_count, fail_count, exit_ok, exit_code, raised,
          results, trace>>

----------------------------------------------------------------------------
(* Bounds *)

MaxRepos == 2
MaxRetries == 3
MaxOpts == 2
MaxCalls == 2

----------------------------------------------------------------------------
(* Strings *)

SEP == "/"

StartsWith(s, p) == Len(s) >= Len(p) /\ SubSeq(s, 1, Len(p)) = p

Drop(s, n) == SubSeq(s, n + 1, Len(s))

IsSpace(ch) == ch \in {" ", "\n", "\t"}

RECURSIVE LStrip(_)
LStrip(s) == IF s # <<>> /\ IsSpace(Head(s)) THEN LStrip(Tail(s)) ELSE s

RECURSIVE RStrip(_)
RStrip(s) ==
    IF s # <<>> /\ IsSpace(s[Len(s)]) THEN RStrip(SubSeq(s, 1, Len(s) - 1)) ELSE s

Strip(s) == RStrip(LStrip(s))

\* The order of the chunks as Python orders the texts (by code point).
ChunkRank(ch) ==
    CASE ch = "\t" -> 1
      [] ch = "\n" -> 2
      [] ch = " " -> 3
      [] ch = "/" -> 4
      [] ch = "a.deb" -> 5
      [] ch = "b.deb" -> 6
      [] ch = "c.deb" -> 7
      [] ch = "contrib" -> 8
      [] ch = "main" -> 9
      [] ch = "pool" -> 10
      [] OTHER -> 11

RECURSIVE StrLess(_, _)
StrLess(s, t) ==
    IF t = <<>> THEN FALSE
    ELSE IF s = <<>> THEN TRUE
    ELSE IF Head(s) = Head(t) THEN StrLess(Tail(s), Tail(t))
    ELSE ChunkRank(Head(s)) < ChunkRank(Head(t))

RECURSIVE Sorted(_)
Sorted(S) ==
    IF S = {} THEN <<>>
    ELSE LET m == CHOOSE x \in S : \A y \in S \ {x} : StrLess(x, y)
         IN  <<m>> \o Sorted(S \ {m})

----------------------------------------------------------------------------
(* Configuration *)

rsync_opts ==
    << <<"--archive">>, <<"--copy-links">>, <<"--verbose">>, <<"--partial">>,
       <<"--append-verify">>, <<"--timeout=", "300">>, <<"--contimeout=", "60">> >>

rsync_delete_opts == << <<"--delete-after">> >>

ALL == <<"all">>

AptRepos ==
    { [name |-> <<"debian">>, rsync_url |-> <<"rsync://ftp.debian.org/debian">>,
       suites |-> << <<"x">> >>, components |-> << <<"main">> >>,
       architectures |-> << <<"amd64">>, ALL >>],
      [name |-> <<"debian-security">>,
       rsync_url |-> <<"rsync://rsync.security.debian.org/debian-security">>,
       suites |-> << <<"buster", SEP, "updates">> >>,
       components |-> << <<"main">>, <<"contrib">> >>,
       architectures |-> << ALL, <<"amd64">> >>],
      [name |-> <<"noarch">>, rsync_url |-> <<"rsync://mirror/noarch">>,
       suites |-> << <<"x">> >>, components |-> << <<"main">> >>,
       architectures |-> << ALL >>],
      [name |-> <<"nosuites">>, rsync_url |-> <<"rsync://mirror/nosuites">>,
       components |-> << <<"main">> >>, architectures |-> << <<"amd64">> >>] }

DnfRepos ==
    { [name |-> <<"rocky">>, rsync_url |-> <<"msync.rockylinux.org::rocky-linux">>,
       versions |-> << <<"8">> >>,
       repos |-> (<<"8">> :> << <<"BaseOS">> >>),
       architectures |-> << <<"x86_64">> >>, path_suffix |-> <<SEP, "os">>],
      [name |-> <<"epel">>, rsync_url |-> <<"archive.linux.duke.edu::fedora-epel">>,
       versions |-> << <<"8">>, <<"9">> >>,
       repos |-> (<<"9">> :> << <<"Everything">> >>),
       architectures |-> << <<"x86_64">>, <<"aarch64">> >>, path_suffix |-> <<>>],
      [name |-> <<"empty">>, rsync_url |-> <<"mirror::empty">>,
       versions |-> <<>>, repos |-> << >>,
       architectures |-> << <<"x86_64">> >>, path_suffix |-> <<SEP, "os">>],
      [name |-> <<"noversions">>, rsync_url |-> <<"mirror::noversions">>,
       repos |-> << >>, architectures |-> << <<"x86_64">> >>] }

SeqsUpTo(S, n) == UNION { [1..k -> S] : k \in 0..n }

\* The retry settings rsync_execute is tried with on its own.
RetrySettings ==
    { [max_retries |-> m, base_delay |-> 2, max_delay |-> d, connection_delay |-> c] :
        m \in 0..MaxRetries, d \in {5, 30}, c \in {0, 1} }

DefaultRetrySettings ==
    [max_retries |-> 3, base_delay |-> 2, max_delay |-> 30, connection_delay |-> 1]

\* The retry settings a run is configured with.
ConfiguredRetrySettings ==
    { DefaultRetrySettings,
      [max_retries |-> 0, base_delay |-> 2, max_delay |-> 30, connection_delay |-> 1],
      [max_retries |-> 2, base_delay |-> 4, max_delay |-> 6, connection_delay |-> 0] }

----------------------------------------------------------------------------
(* Filter rules and the requests of the metadata phase *)

base_dir == <<SEP, "mirror">>

RepoDir(repo) == base_dir \o <<SEP>> \o repo.name

Include(pattern) == <<"--include=">> \o pattern

ExcludeAll == <<"--exclude=", "*">>

Range(s) == { s[i] : i \in DOMAIN s }

\* apt sync_dists: the Release files of one suite
ReleaseOpts(suite) ==
    << Include(<<SEP>> \o suite \o <<SEP>>),
       Include(<<SEP>> \o suite \o <<SEP, "Release">>),
       Include(<<SEP>> \o suite \o <<SEP, "Release.gpg">>),
       Include(<<SEP>> \o suite \o <<SEP, "InRelease">>),
       ExcludeAll >>

\* apt sync_dists: one binary-<arch> subtree
BinaryOpts(suite, component, arch) ==
    << Include(<<SEP>> \o suite \o <<SEP>>),
       Include(<<SEP>> \o suite \o <<SEP>> \o component \o <<SEP>>),
       Include(<<SEP>> \o suite \o <<SEP>> \o component \o <<SEP, "binary-">> \o arch
                \o <<SEP>>),
       Include(<<SEP>> \o suite \o <<SEP>> \o component \o <<SEP, "binary-">> \o arch
                \o <<SEP, "**">>),
       ExcludeAll >>

\* apt sync_dists: Contents, i18n and dep11 of one component
ExtrasOpts(suite, component) ==
    << Include(<<SEP>> \o suite \o <<SEP>>),
       Include(<<SEP>> \o suite \o <<SEP>> \o component \o <<SEP>>),
       Include(<<SEP>> \o suite \o <<SEP>> \o component \o <<SEP, "Contents-*.gz">>),
       Include(<<SEP>> \o suite \o <<SEP>> \o component \o <<SEP, "i18n", SEP>>),
       Include(<<SEP>> \o suite \o <<SEP>> \o component \o <<SEP, "i18n", SEP, "**">>),
       Include(<<SEP>> \o suite \o <<SEP>> \o component \o <<SEP, "dep11", SEP>>),
       Include(<<SEP>> \o suite \o <<SEP>> \o component \o <<SEP, "dep11", SEP, "**">>),
       ExcludeAll >>

\* The directory of the package index of one coordinate, below the destination.
BinaryDir(repo, suite, component, arch) ==
    RepoDir(repo) \o <<SEP, "dists", SEP>> \o suite \o <<SEP>> \o component
        \o <<SEP, "binary-">> \o arch

NoTarget == <<>>

\* A call of rsync_execute: its arguments, whether the caller looks at the result
\* (checked), and the index directory the transfer fills (target).
Request(kind, suite, component, arch, source, dest, opts, use_delete, checked, target) ==
    [kind |-> kind, suite |-> suite, component |-> component, arch |-> arch,
     source |-> source, dest |-> dest, additional_opts |-> opts,
     use_delete |-> use_delete, checked |-> checked, target |-> target]

NoReq == Request("none", <<>>, <<>>, <<>>, <<>>, <<>>, <<>>, FALSE, FALSE, NoTarget)

DistsSource(repo) == repo.rsync_url \o <<SEP, "dists", SEP>>

DistsDest(repo) == RepoDir(repo) \o <<SEP, "dists">>

DistsSkipsArch_never(arch) == FALSE

\* apt sync_dists: if arch == 'all': continue
DistsSkipsArch(arch) == arch = ALL

RECURSIVE ArchRequests(_, _, _, _)
ArchRequests(repo, suite, component, archs) ==
    IF archs = <<>> THEN <<>>
    ELSE (IF DistsSkipsArch(Head(archs)) THEN <<>>
          ELSE << Request("binary", suite, component, Head(archs), DistsSource(repo),
                          DistsDest(repo), BinaryOpts(suite, component, Head(archs)),
                          TRUE, TRUE, BinaryDir(repo, suite, component, Head(archs))) >>)
         \o ArchRequests(repo, suite, component, Tail(archs))

RECURSIVE ComponentRequests(_, _, _)
ComponentRequests(repo, suite, components) ==
    IF components = <<>> THEN <<>>
    ELSE ArchRequests(repo, suite, Head(components), repo.architectures)
         \o << Request("extras", suite, Head(components), <<>>, DistsSource(repo),
                       DistsDest(repo), ExtrasOpts(suite, Head(components)),
                       TRUE, FALSE, NoTarget) >>
         \o ComponentRequests(repo, suite, Tail(components))

RECURSIVE SuiteRequests(_, _)
SuiteRequests(repo, suites) ==
    IF suites = <<>> THEN <<>>
    ELSE << Request("release", Head(suites), <<>>, <<>>, DistsSource(repo),
                    DistsDest(repo), ReleaseOpts(Head(suites)), TRUE, TRUE, NoTarget) >>
         \o ComponentRequests(repo, Head(suites), repo.components)
         \o SuiteRequests(repo, Tail(suites))

\* apt sync_dists: the calls of rsync_execute in the order of its loops
DistsRequests(repo) == SuiteRequests(repo, repo.suites)

RepodataOpts ==
    << Include(<<SEP, "repodata", SEP>>), Include(<<SEP, "repodata", SEP, "**">>),
       ExcludeAll >>

PackagesOpts ==
    << Include(<<SEP, "Packages", SEP>>), Include(<<SEP, "Packages", SEP, "**">>),
       ExcludeAll >>

KeyFilesOpts ==
    << Include(<<SEP, "RPM-GPG-KEY-*">>), Include(<<SEP, "EULA">>),
       Include(<<SEP, "LICENSE">>), Include(<<SEP, "media.repo">>), ExcludeAll >>

\* dnf: repo['repos'].get(version, [])
RepoList(repo, version) ==
    IF version \in DOMAIN repo.repos THEN repo.repos[version] ELSE <<>>

RepoPath(repo, version, repo_name, arch) ==
    version \o <<SEP>> \o repo_name \o <<SEP>> \o arch \o repo.path_suffix

\* dnf sync_repository_data: the three calls for one coordinate
CoordRequests(repo, version, repo_name, arch) ==
    LET source == repo.rsync_url \o <<SEP>> \o RepoPath(repo, version, repo_name, arch)
                      \o <<SEP>>
        dest == RepoDir(repo) \o <<SEP>> \o RepoPath(repo, version, repo_name, arch)
    IN  << Request("repodata", version, repo_name, arch, source, dest, RepodataOpts,
                   TRUE, TRUE, NoTarget),
           Request("packages", version, repo_name, arch, source, dest, PackagesOpts,
                   TRUE, TRUE, NoTarget),
           Request("keyfiles", version, repo_name, arch, source, dest, KeyFilesOpts,
                   FALSE, FALSE, NoTarget) >>

RECURSIVE DnfArchRequests(_, _, _, _)
DnfArchRequests(repo, version, repo_name, archs) ==
    IF archs = <<>> THEN <<>>
    ELSE CoordRequests(repo, version, repo_name, Head(archs))
         \o DnfArchRequests(repo, version, repo_name, Tail(archs))

RECURSIVE RepoNameRequests(_, _, _)
RepoNameRequests(repo, version, repo_list) ==
    IF repo_list = <<>> THEN <<>>
    ELSE DnfArchRequests(repo, version, Head(repo_list), repo.architectures)
         \o RepoNameRequests(repo, version, Tail(repo_list))

RECURSIVE VersionRequests(_, _)
VersionRequests(repo, versions) ==
    IF versions = <<>> THEN <<>>
    ELSE RepoNameRequests(repo, Head(versions), RepoList(repo, Head(versions)))
         \o VersionRequests(repo, Tail(versions))

\* dnf sync_repository_data: the calls of rsync_execute in the order of its loops
RepositoryDataRequests(repo) == VersionRequests(repo, repo.versions)

MetaRequests(v, repo) ==
    IF v = "apt" THEN DistsRequests(repo) ELSE RepositoryDataRequests(repo)

----------------------------------------------------------------------------
(* rsync_execute: the command *)

\* apt rsync_execute, lines 129-137
BuildCmdApt(source, dest, additional_opts, use_delete) ==
    << <<"rsync">> >> \o rsync_opts
    \o (IF use_delete /\ <<"--no-dirs">> \notin Range(additional_opts)
        THEN rsync_delete_opts ELSE <<>>)
    \o additional_opts
    \o <<source, dest \o <<SEP>>>>

\* dnf rsync_execute, lines 149-157
BuildCmdDnf(source, dest, additional_opts, use_delete) ==
    << <<"rsync">> >> \o rsync_opts
    \o (IF use_delete /\ <<"--files-from">> \notin Range(additional_opts)
        THEN rsync_delete_opts ELSE <<>>)
    \o additional_opts
    \o <<source, dest \o <<SEP>>>>

BuildCmd(v, req) ==
    IF v = "apt"
    THEN BuildCmdApt(req.source, req.dest, req.additional_opts, req.use_delete)
    ELSE BuildCmdDnf(req.source, req.dest, req.additional_opts, req.use_delete)

----------------------------------------------------------------------------
(* The package indexes and extract_package_files *)

\* An index file: its lines, and err = k > 0 when reading line k raises an
\* exception (a decompression or encoding error), err = 0 when none does.
IndexFile(lines, err) == [exists |-> TRUE, lines |-> lines, err |-> err]

NoFile == [exists |-> FALSE, lines |-> <<>>, err |-> 0]

FilenameLine(path) == <<"Filename: ">> \o path \o <<"\n">>

PackageLine == <<"Package: ", "foo", "\n">>

\* What a binary-<arch> directory of the upstream may hold.
IndexDirs ==
    { [gz |-> NoFile, xz |-> NoFile, plain |-> NoFile],
      [gz |-> IndexFile(<< PackageLine, FilenameLine(<<"pool", SEP, "main", SEP, "b.deb">>),
                           FilenameLine(<<"pool", SEP, "main", SEP, "a.deb">>) >>, 0),
       xz |-> NoFile, plain |-> NoFile],
      [gz |-> NoFile,
       xz |-> IndexFile(<< FilenameLine(<<" ", SEP, "main", SEP, "c.deb", " ">>) >>, 0),
       plain |-> IndexFile(<< FilenameLine(<<"pool", SEP, "main", SEP, "a.deb">>) >>, 0)],
      [gz |-> IndexFile(<< FilenameLine(<<"pool", SEP, "main", SEP, "a.deb">>),
                           FilenameLine(<<"pool", SEP, "main", SEP, "b.deb">>) >>, 2),
       xz |-> NoFile,
       plain |-> IndexFile(<< FilenameLine(<<"pool", SEP, "main", SEP, "c.deb">>) >>, 0)],
      [gz |-> NoFile, xz |-> NoFile, plain |-> IndexFile(<< PackageLine >>, 0)] }

DirAt(t, dir) ==
    IF dir \in DOMAIN t THEN t[dir] ELSE [gz |-> NoFile, xz |-> NoFile, plain |-> NoFile]

SelectFormat_skipsBroken(d) ==
    IF d.gz.exists /\ d.gz.err = 0 THEN "gz"
    ELSE IF d.xz.exists /\ d.xz.err = 0 THEN "xz"
    ELSE IF d.plain.exists THEN "plain"
    ELSE "none"

\* extract_package_files, lines 249-263: gzip, then xz, then uncompressed;
\* "none" is the warning and the continue
SelectFormat(d) ==
    IF d.gz.exists THEN "gz"
    ELSE IF d.xz.exists THEN "xz"
    ELSE IF d.plain.exists THEN "plain"
    ELSE "none"

FileOf(d, format) ==
    CASE format = "gz" -> d.gz
      [] format = "xz" -> d.xz
      [] format = "plain" -> d.plain
      [] OTHER -> NoFile

\* the file that open_func(packages_file, 'rt') opens, NoFile when there is none
SelectIndex(d) == FileOf(d, SelectFormat(d))

FilenameOf_keepsSeparator(line) == Strip(Drop(line, 1))

\* lines 272-275
FilenameOf(line) ==
    LET filename == Strip(Drop(line, 1))
    IN  IF StartsWith(filename, <<SEP>>) THEN Tail(filename) ELSE filename

\* lines 267-278: the paths added before the file ends or reading it raises
ParseFile(f) ==
    LET n == IF f.err = 0 THEN Len(f.lines) ELSE f.err - 1
    IN  { FilenameOf(f.lines[i]) :
            i \in { j \in 1..n : StartsWith(f.lines[j], <<"Filename: ">>) } }

ExtractSkipsArch_never(arch) == FALSE

\* extract_package_files: if arch == 'all': continue
ExtractSkipsArch(arch) == arch = ALL

\* lines 233-235: the triples in the order of the three for loops
CoordinateSeq(repo) ==
    LET nc == Len(repo.components)
        na == Len(repo.architectures)
    IN  [i \in 1..(Len(repo.suites) * nc * na) |->
            << repo.suites[((i - 1) \div (nc * na)) + 1],
               repo.components[(((i - 1) \div na) % nc) + 1],
               repo.architectures[((i - 1) % na) + 1] >>]

extract_package_files_aborts(repo, t) ==
    LET cs == CoordinateSeq(repo)
        file(i) == SelectIndex(DirAt(t, BinaryDir(repo, cs[i][1], cs[i][2], cs[i][3])))
        bad == { i \in DOMAIN cs :
                   ~ExtractSkipsArch(cs[i][3]) /\ (~file(i).exists \/ file(i).err > 0) }
    IN  UNION { ParseFile(file(i)) :
                  i \in { j \in DOMAIN cs :
                            ~ExtractSkipsArch(cs[j][3]) /\ \A b \in bad : j <= b } }

\* An extraction that passes over the index files it has opened before.
extract_package_files_skipsOpened(repo, t) ==
    UNION { ParseFile(SelectIndex(DirAt(t, BinaryDir(repo, s, c, a)))) :
              <<s, c, a>> \in
                 { x \in Range(repo.suites) \X Range(repo.components)
                          \X { b \in Range(repo.architectures) : ~ExtractSkipsArch(b) } :
                     \A df \in opened : df[1] # BinaryDir(repo, x[1], x[2], x[3]) } }

extract_package_files(repo, t) ==
    UNION { ParseFile(SelectIndex(DirAt(t, BinaryDir(repo, s, c, a)))) :
              s \in Range(repo.suites), c \in Range(repo.components),
              a \in { b \in Range(repo.architectures) : ~ExtractSkipsArch(b) } }

\* lines 233-243: the triples for which extract_package_files looks for an index
consulted_coordinates(repo) ==
    { CoordinateSeq(repo)[i] :
        i \in { j \in DOMAIN CoordinateSeq(repo) :
                  ~ExtractSkipsArch(CoordinateSeq(repo)[j][3]) } }

\* the files extract_package_files opens, by directory and format
opened_files(repo, t) ==
    { df \in { <<BinaryDir(repo, s, c, a), SelectFormat(DirAt(t, BinaryDir(repo, s, c, a)))>> :
                 s \in Range(repo.suites), c \in Range(repo.components),
                 a \in { b \in Range(repo.architectures) : ~ExtractSkipsArch(b) } } :
        df[2] # "none" }

----------------------------------------------------------------------------
(* sync_pool *)

NoTemp == [exists |-> FALSE, lines |-> <<>>]

temp_name == <<"/tmp/tmp.txt">>

\* The list written in the iteration order of the set, which differs from one
\* process to the next.
FileListLines_hashOrder(pkgs) ==
    LET sorted == Sorted(pkgs)
        order == IF previous = <<>> THEN sorted
                 ELSE [i \in 1..Len(sorted) |-> sorted[Len(sorted) + 1 - i]]
    IN  [i \in 1..Len(order) |->
            IF StartsWith(order[i], <<"pool", SEP>>) THEN Drop(order[i], 2)
            ELSE order[i]]

\* sync_pool, lines 291-296
FileListLines(pkgs) ==
    LET sorted == Sorted(pkgs)
    IN  [i \in 1..Len(sorted) |->
            IF StartsWith(sorted[i], <<"pool", SEP>>) THEN Drop(sorted[i], 2)
            ELSE sorted[i]]

\* sync_pool, lines 303-312
PoolRequest(repo) ==
    Request("pool", <<>>, <<>>, <<>>, repo.rsync_url \o <<SEP, "pool", SEP>>,
            RepoDir(repo) \o <<SEP, "pool">>,
            << <<"--files-from=">> \o temp_name, <<"--recursive">>, <<"--relative">> >>,
            FALSE, TRUE, NoTarget)

----------------------------------------------------------------------------
(* rsync_execute: the retry loop of the dnf variant *)

JitterMax == 2

Min(a, b) == IF a < b THEN a ELSE b

SleepChoices_offByOne(attempt, rs) ==
    IF attempt > 0
    THEN { Min(rs.base_delay * (2 ^ (attempt - 1)), rs.max_delay) + j : j \in 0..JitterMax }
    ELSE 0..rs.connection_delay

SleepChoices_uncapped(attempt, rs) ==
    IF attempt > 0
    THEN { rs.base_delay * (2 ^ attempt) + j : j \in 0..JitterMax }
    ELSE 0..rs.connection_delay

\* dnf rsync_execute, lines 141-147: what time.sleep may be called with
SleepChoices(attempt, rs) ==
    IF attempt > 0
    THEN { Min(rs.base_delay * (2 ^ attempt), rs.max_delay) + j : j \in 0..JitterMax }
    ELSE 0..rs.connection_delay

AttemptResult_okContinues(outcome, attempt, max_retries) ==
    CASE outcome = "ok" -> "continue"
      [] outcome = "max_connections" -> "continue"
      [] outcome = "failed" ->
            IF attempt = max_retries - 1 THEN "return_false" ELSE "continue"
      [] outcome = "not_found" -> "return_false"

AttemptResult_notFoundRetries(outcome, attempt, max_retries) ==
    CASE outcome = "ok" -> "return_true"
      [] outcome = "max_connections" -> "continue"
      [] outcome \in {"failed", "not_found"} ->
            IF attempt = max_retries - 1 THEN "return_false" ELSE "continue"

\* dnf rsync_execute, lines 161-180: what the loop does after an attempt
AttemptResult(outcome, attempt, max_retries) ==
    CASE outcome = "ok" -> "return_true"
      [] outcome = "max_connections" -> "continue"
      [] outcome = "failed" ->
            IF attempt = max_retries - 1 THEN "return_false" ELSE "continue"
      [] outcome = "not_found" -> "return_false"

AptOutcomes == {"ok", "failed", "not_found"}

DnfOutcomes == {"ok", "failed", "max_connections", "not_found"}

IdleFrame ==
    [status |-> "idle", req |-> NoReq, attempt |-> 0, outcomes |-> <<>>,
     sleeps |-> <<>>, cmd |-> <<>>, ret |-> FALSE]

CallFrame(req) == [IdleFrame EXCEPT !.status = "running", !.req = req]

----------------------------------------------------------------------------
(* The run *)

Configs ==
    { <<v, c>> : v \in {"apt"}, c \in SeqsUpTo(AptRepos, MaxRepos) }
    \cup { <<v, c>> : v \in {"dnf"}, c \in SeqsUpTo(DnfRepos, MaxRepos) }

Init ==
    /\ \E vc \in Configs : variant = vc[1] /\ config = vc[2]
    /\ retry_settings \in (IF variant = "apt" THEN {DefaultRetrySettings}
                           ELSE ConfiguredRetrySettings)
    /\ upstream = << >>
    /\ runs = 1
    /\ previous = <<>>
    /\ requests = <<>>
    /\ counting = FALSE
    /\ invocations = 0
    /\ pc = "run"
    /\ repoIdx = 0
    /\ pos = 1
    /\ ex = IdleFrame
    /\ tree = << >>
    /\ dirs = {}
    /\ package_files = {}
    /\ opened = {}
    /\ temp_file = NoTemp
    /\ success_count = 0
    /\ fail_count = 0
    /\ exit_ok = FALSE
    /\ exit_code = -1
    /\ raised = "none"
    /\ results = <<>>
    /\ trace = <<>>

repo == config[repoIdx]

TraceEntry(req) ==
    [kind |-> req.kind, suite |-> req.suite, component |-> req.component,
     arch |-> req.arch, ret |-> "pending"]

ExtractEntry ==
    [kind |-> "extract", suite |-> <<>>, component |-> <<>>, arch |-> <<>>,
     ret |-> "true"]

Returned(t, ret) ==
    [t EXCEPT ![Len(t)].ret = IF ret THEN "true" ELSE "false"]

Propagate_statusOne(exc) ==
    /\ raised' = exc
    /\ exit_code' = 1
    /\ pc' = "exit"
    /\ ex' = IdleFrame
    /\ temp_file' = IF pc = "pool" /\ ex.status # "idle" THEN NoTemp ELSE temp_file

\* main(): an exception has left run(): the frames are left, sync_pool's finally
\* clause unlinks the list file if the try statement had been entered, and
\* main() exits with 130 for a KeyboardInterrupt and with 1 for any Exception
Propagate(exc) ==
    /\ raised' = exc
    /\ exit_code' = IF exc = "KeyboardInterrupt" THEN 130 ELSE 1
    /\ pc' = "exit"
    /\ ex' = IdleFrame
    /\ temp_file' = IF pc = "pool" /\ ex.status # "idle" THEN NoTemp ELSE temp_file

\* sync_repository / sync_repository_data: the keys of the descriptor that are
\* subscripted before the first transfer of the repository
RequiredKeys(v, r) ==
    IF v = "apt" THEN {"name", "rsync_url", "suites", "components", "architectures"}
    ELSE {"name", "rsync_url", "versions", "architectures"}
         \cup (IF "versions" \in DOMAIN r /\ r.versions # <<>> THEN {"repos"} ELSE {})

MissingKey(v, r) == ~(RequiredKeys(v, r) \subseteq DOMAIN r)

\* run(): the for loop takes a repository whose descriptor lacks a key:
\* sync_repository raises KeyError before its first transfer
RunNextRaises ==
    /\ pc = "run"
    /\ repoIdx < Len(config)
    /\ MissingKey(variant, config[repoIdx + 1])
    /\ repoIdx' = repoIdx + 1
    /\ pos' = 1
    /\ trace' = <<>>
    /\ package_files' = {}
    /\ opened' = {}
    /\ Propagate("KeyError")
    /\ UNCHANGED <<counting, invocations>>
    /\ UNCHANGED <<variant, config, retry_settings, upstream, runs, previous, requests,
                   tree, dirs, success_count, fail_count, exit_ok, results>>

\* main(): sys.exit(0 if syncer.run() else 1)
MainExit ==
    /\ pc = "done"
    /\ pc' = "exit"
    /\ exit_code' = IF exit_ok THEN 0 ELSE 1
    /\ UNCHANGED <<counting, invocations>>
    /\ UNCHANGED <<variant, config, retry_settings, upstream, runs, previous, requests,
                   repoIdx, pos, ex, tree, dirs, package_files, opened, temp_file,
                   success_count, fail_count, exit_ok, raised, results, trace>>

\* The exceptions that can be raised where the run is: a KeyboardInterrupt
\* anywhere, an OSError other than FileNotFoundError out of dest.mkdir or
\* subprocess.run while rsync_execute runs.
Raisable ==
    {"KeyboardInterrupt"} \cup (IF ex.status = "running" THEN {"OSError"} ELSE {})

\* An exception that no frame below main() catches: rsync_execute catches
\* CalledProcessError and FileNotFoundError only, extract_package_files catches
\* Exception, which a KeyboardInterrupt is not.
Raise ==
    /\ pc \in {"run", "meta", "extract", "pool", "done"}
    /\ \E exc \in Raisable : Propagate(exc)
    /\ UNCHANGED <<counting, invocations>>
    /\ UNCHANGED <<variant, config, retry_settings, upstream, runs, previous, requests,
                   repoIdx, pos, tree, dirs, package_files, opened, success_count,
                   fail_count, exit_ok, results, trace>>

\* run(): the for loop takes the next repository; sync_repository calls
\* sync_dists (apt) or sync_repository_data (dnf)
RunNext ==
    /\ pc = "run"
    /\ repoIdx < Len(config)
    /\ ~MissingKey(variant, config[repoIdx + 1])
    /\ repoIdx' = repoIdx + 1
    /\ pc' = "meta"
    /\ pos' = 1
    /\ trace' = <<>>
    /\ package_files' = {}
    /\ opened' = {}
    /\ UNCHANGED <<counting, invocations>>
    /\ UNCHANGED <<variant, config, retry_settings, upstream, runs, previous, requests,
                   ex, tree, dirs, temp_file, success_count, fail_count, exit_ok,
                   exit_code, raised, results>>

RunFinish_abortOnFailure ==
    /\ pc = "run"
    /\ (repoIdx = Len(config) \/ fail_count > 0)
    /\ pc' = "done"
    /\ exit_ok' = (fail_count = 0)
    /\ UNCHANGED <<exit_code, raised>>
    /\ UNCHANGED <<counting, invocations>>
    /\ UNCHANGED <<variant, config, retry_settings, upstream, runs, previous, requests,
                   repoIdx, pos, ex, tree, dirs, package_files, opened, temp_file,
                   success_count, fail_count, results, trace>>

\* run(): the loop is over
RunFinish ==
    /\ pc = "run"
    /\ repoIdx = Len(config)
    /\ pc' = "done"
    /\ exit_ok' = (fail_count = 0)
    /\ UNCHANGED <<exit_code, raised>>
    /\ UNCHANGED <<counting, invocations>>
    /\ UNCHANGED <<variant, config, retry_settings, upstream, runs, previous, requests,
                   repoIdx, pos, ex, tree, dirs, package_files, opened, temp_file,
                   success_count, fail_count, results, trace>>

\* sync_repository returned success to run()
RepoSucceeds ==
    /\ success_count' = success_count + 1
    /\ results' = Append(results, TRUE)
    /\ pc' = "run"
    /\ UNCHANGED fail_count

\* sync_repository returned failure to run()
RepoFails ==
    /\ fail_count' = fail_count + 1
    /\ results' = Append(results, FALSE)
    /\ pc' = "run"
    /\ UNCHANGED success_count

Recorded(req, lines) ==
    IF runs > 1 THEN Append(requests, [req |-> req, lines |-> lines]) ELSE requests

\* the metadata phase calls rsync_execute for its next request
MetaIssue ==
    /\ pc = "meta"
    /\ ex.status = "idle"
    /\ pos <= Len(MetaRequests(variant, repo))
    /\ LET req == MetaRequests(variant, repo)[pos]
       IN  /\ ex' = CallFrame(req)
           /\ dirs' = dirs \cup {req.dest}
           /\ trace' = Append(trace, TraceEntry(req))
           /\ requests' = Recorded(req, <<>>)
    /\ UNCHANGED <<counting, invocations>>
    /\ UNCHANGED <<variant, config, retry_settings, upstream, runs, previous, pc,
                   repoIdx, pos, tree, package_files, opened, temp_file, success_count,
                   fail_count, exit_ok, exit_code, raised, results>>

\* What a transfer that succeeded leaves at the destination.
Transferred(req, outcome) ==
    IF outcome = "ok" /\ req.target # NoTarget
    THEN IF req.target \in DOMAIN upstream
         THEN tree' = (req.target :> upstream[req.target]) @@ tree
         ELSE \E d \in IndexDirs : tree' = (req.target :> d) @@ tree
    ELSE tree' = tree

\* apt rsync_execute: one invocation of rsync
ExecuteApt ==
    /\ variant = "apt"
    /\ ex.status = "running"
    /\ \E outcome \in AptOutcomes :
          /\ ex' = [ex EXCEPT !.status = "returned",
                              !.cmd = BuildCmd(variant, ex.req),
                              !.attempt = 1,
                              !.outcomes = Append(@, outcome),
                              !.ret = (outcome = "ok")]
          /\ Transferred(ex.req, outcome)
    /\ invocations' = IF counting THEN invocations + 1 ELSE invocations
    /\ UNCHANGED counting
    /\ UNCHANGED <<variant, config, retry_settings, upstream, runs, previous, requests,
                   pc, repoIdx, pos, dirs, package_files, opened, temp_file,
                   success_count, fail_count, exit_ok, exit_code, raised, results,
                   trace>>

\* A loop over range(max_retries + 1).
DnfAttempt_oneMore ==
    /\ variant = "dnf"
    /\ ex.status = "running"
    /\ ex.attempt <= retry_settings.max_retries
    /\ \E delay \in SleepChoices(ex.attempt, retry_settings), outcome \in DnfOutcomes :
          LET result == AttemptResult(outcome, ex.attempt, retry_settings.max_retries)
          IN  /\ ex' = [ex EXCEPT
                          !.status = IF result = "continue" THEN "running"
                                     ELSE "returned",
                          !.cmd = BuildCmd(variant, ex.req),
                          !.attempt = IF result = "continue" THEN @ + 1 ELSE @,
                          !.outcomes = Append(@, outcome),
                          !.sleeps = Append(@, delay),
                          !.ret = (result = "return_true")]
              /\ Transferred(ex.req, outcome)
    /\ invocations' = IF counting THEN invocations + 1 ELSE invocations
    /\ UNCHANGED counting
    /\ UNCHANGED <<variant, config, retry_settings, upstream, runs, previous, requests,
                   pc, repoIdx, pos, dirs, package_files, opened, temp_file,
                   success_count, fail_count, exit_ok, exit_code, raised, results,
                   trace>>

\* A loop that makes its first attempt before it looks at the budget.
DnfAttempt_doWhile ==
    /\ variant = "dnf"
    /\ ex.status = "running"
    /\ (ex.attempt < retry_settings.max_retries \/ ex.attempt = 0)
    /\ \E delay \in SleepChoices(ex.attempt, retry_settings), outcome \in DnfOutcomes :
          LET result == AttemptResult(outcome, ex.attempt, retry_settings.max_retries)
          IN  /\ ex' = [ex EXCEPT
                          !.status = IF result = "continue" THEN "running"
                                     ELSE "returned",
                          !.cmd = BuildCmd(variant, ex.req),
                          !.attempt = IF result = "continue" THEN @ + 1 ELSE @,
                          !.outcomes = Append(@, outcome),
                          !.sleeps = Append(@, delay),
                          !.ret = (result = "return_true")]
              /\ Transferred(ex.req, outcome)
    /\ invocations' = IF counting THEN invocations + 1 ELSE invocations
    /\ UNCHANGED counting
    /\ UNCHANGED <<variant, config, retry_settings, upstream, runs, previous, requests,
                   pc, repoIdx, pos, dirs, package_files, opened, temp_file,
                   success_count, fail_count, exit_ok, exit_code, raised, results,
                   trace>>

\* dnf rsync_execute: one iteration of the for loop: the sleep, the invocation
\* of rsync, and what follows from its outcome
DnfAttempt ==
    /\ variant = "dnf"
    /\ ex.status = "running"
    /\ ex.attempt < retry_settings.max_retries
    /\ \E delay \in SleepChoices(ex.attempt, retry_settings), outcome \in DnfOutcomes :
          LET result == AttemptResult(outcome, ex.attempt, retry_settings.max_retries)
          IN  /\ ex' = [ex EXCEPT
                          !.status = IF result = "continue" THEN "running"
                                     ELSE "returned",
                          !.cmd = BuildCmd(variant, ex.req),
                          !.attempt = IF result = "continue" THEN @ + 1 ELSE @,
                          !.outcomes = Append(@, outcome),
                          !.sleeps = Append(@, delay),
                          !.ret = (result = "return_true")]
              /\ Transferred(ex.req, outcome)
    /\ invocations' = IF counting THEN invocations + 1 ELSE invocations
    /\ UNCHANGED counting
    /\ UNCHANGED <<variant, config, retry_settings, upstream, runs, previous, requests,
                   pc, repoIdx, pos, dirs, package_files, opened, temp_file,
                   success_count, fail_count, exit_ok, exit_code, raised, results,
                   trace>>

\* dnf rsync_execute, line 182: the loop ended without a return
DnfExhausted ==
    /\ variant = "dnf"
    /\ ex.status = "running"
    /\ ex.attempt >= retry_settings.max_retries
    /\ ex' = [ex EXCEPT !.status = "returned", !.ret = FALSE]
    /\ UNCHANGED <<counting, invocations>>
    /\ UNCHANGED <<variant, config, retry_settings, upstream, runs, previous, requests,
                   pc, repoIdx, pos, tree, dirs, package_files, opened, temp_file,
                   success_count, fail_count, exit_ok, exit_code, raised, results,
                   trace>>

\* the metadata phase gets the result of rsync_execute: a checked request that
\* failed ends the phase and the repository, any other result goes on
MetaReturn ==
    /\ pc = "meta"
    /\ ex.status = "returned"
    /\ trace' = Returned(trace, ex.ret)
    /\ ex' = IdleFrame
    /\ IF ex.req.checked /\ ~ex.ret
       THEN RepoFails /\ UNCHANGED pos
       ELSE /\ pos' = pos + 1
            /\ UNCHANGED <<pc, success_count, fail_count, results>>
    /\ UNCHANGED <<counting, invocations>>
    /\ UNCHANGED <<variant, config, retry_settings, upstream, runs, previous, requests,
                   repoIdx, tree, dirs, package_files, opened, temp_file, exit_ok,
                   exit_code, raised>>

\* sync_dists / sync_repository_data: the loops are over, return True
MetaDone ==
    /\ pc = "meta"
    /\ ex.status = "idle"
    /\ pos > Len(MetaRequests(variant, repo))
    /\ IF variant = "apt"
       THEN pc' = "extract" /\ UNCHANGED <<success_count, fail_count, results>>
       ELSE RepoSucceeds
    /\ UNCHANGED <<counting, invocations>>
    /\ UNCHANGED <<variant, config, retry_settings, upstream, runs, previous, requests,
                   repoIdx, pos, ex, tree, dirs, package_files, opened, temp_file,
                   exit_ok, exit_code, raised, trace>>

AfterExtract_emptyFails(pkgs) == IF pkgs = {} THEN "return_false" ELSE "sync_pool"

AfterExtract_noCheck(pkgs) == "sync_pool"

\* apt sync_repository, lines 341-346: what follows the extraction
AfterExtract(pkgs) == IF pkgs = {} THEN "return_true" ELSE "sync_pool"

\* apt sync_repository, step 2
Extract ==
    /\ pc = "extract"
    /\ package_files' = extract_package_files(repo, tree)
    /\ opened' = opened_files(repo, tree)
    /\ trace' = Append(trace, ExtractEntry)
    /\ CASE AfterExtract(package_files') = "return_true" -> RepoSucceeds
         [] AfterExtract(package_files') = "return_false" -> RepoFails
         [] OTHER -> pc' = "pool" /\ UNCHANGED <<success_count, fail_count, results>>
    /\ UNCHANGED <<counting, invocations>>
    /\ UNCHANGED <<variant, config, retry_settings, upstream, runs, previous, requests,
                   repoIdx, pos, ex, tree, dirs, temp_file, exit_ok, exit_code, raised>>

PoolWrite_returnsOnEmpty ==
    /\ pc = "pool"
    /\ ex.status = "idle"
    /\ ~temp_file.exists
    /\ IF package_files = {}
       THEN RepoSucceeds /\ UNCHANGED temp_file
       ELSE /\ temp_file' = [exists |-> TRUE, lines |-> FileListLines(package_files)]
            /\ UNCHANGED <<pc, success_count, fail_count, results>>
    /\ UNCHANGED <<counting, invocations>>
    /\ UNCHANGED <<variant, config, retry_settings, upstream, runs, previous, requests,
                   repoIdx, pos, ex, tree, dirs, package_files, opened, exit_ok,
                   exit_code, raised, trace>>

\* apt sync_pool, lines 290-297: the list file is created and written
PoolWrite ==
    /\ pc = "pool"
    /\ ex.status = "idle"
    /\ ~temp_file.exists
    /\ temp_file' = [exists |-> TRUE, lines |-> FileListLines(package_files)]
    /\ UNCHANGED <<counting, invocations>>
    /\ UNCHANGED <<variant, config, retry_settings, upstream, runs, previous, requests,
                   pc, repoIdx, pos, ex, tree, dirs, package_files, opened,
                   success_count, fail_count, exit_ok, exit_code, raised, results,
                   trace>>

\* apt sync_pool, lines 290-297: f.write raises after k lines (an OSError such
\* as a full disk, or a KeyboardInterrupt); the with statement closes the file,
\* which was created with delete=False, and the try statement is not reached
PoolWriteRaises ==
    /\ pc = "pool"
    /\ ex.status = "idle"
    /\ ~temp_file.exists
    /\ \E exc \in {"OSError", "KeyboardInterrupt"},
          k \in 0..(Len(FileListLines(package_files)) - 1) :
          /\ temp_file' = [exists |-> TRUE,
                           lines |-> SubSeq(FileListLines(package_files), 1, k)]
          /\ raised' = exc
          /\ exit_code' = IF exc = "KeyboardInterrupt" THEN 130 ELSE 1
    /\ pc' = "exit"
    /\ UNCHANGED <<counting, invocations>>
    /\ UNCHANGED <<variant, config, retry_settings, upstream, runs, previous, requests,
                   repoIdx, pos, ex, tree, dirs, package_files, opened, success_count,
                   fail_count, exit_ok, results, trace>>

\* apt sync_pool, lines 299-312: the try statement is entered and rsync_execute
\* is called with the list file
PoolIssue ==
    /\ pc = "pool"
    /\ ex.status = "idle"
    /\ temp_file.exists
    /\ ex' = CallFrame(PoolRequest(repo))
    /\ dirs' = dirs \cup {PoolRequest(repo).dest}
    /\ trace' = Append(trace, TraceEntry(PoolRequest(repo)))
    /\ requests' = Recorded(PoolRequest(repo), temp_file.lines)
    /\ UNCHANGED <<counting, invocations>>
    /\ UNCHANGED <<variant, config, retry_settings, upstream, runs, previous, pc,
                   repoIdx, pos, tree, package_files, opened, temp_file, success_count,
                   fail_count, exit_ok, exit_code, raised, results>>

\* apt sync_pool: rsync_execute returned; unlink the list file, return its result
PoolReturn ==
    /\ pc = "pool"
    /\ ex.status = "returned"
    /\ temp_file' = NoTemp
    /\ trace' = Returned(trace, ex.ret)
    /\ ex' = IdleFrame
    /\ IF ex.ret THEN RepoSucceeds ELSE RepoFails
    /\ UNCHANGED <<counting, invocations>>
    /\ UNCHANGED <<variant, config, retry_settings, upstream, runs, previous, requests,
                   repoIdx, pos, tree, dirs, package_files, opened, exit_ok, exit_code,
                   raised>>

Next ==
    \/ RunNext
    \/ RunFinish
    \/ MetaIssue
    \/ ExecuteApt
    \/ DnfAttempt
    \/ DnfExhausted
    \/ MetaReturn
    \/ MetaDone
    \/ Extract
    \/ PoolWrite
    \/ PoolWriteRaises
    \/ PoolIssue
    \/ PoolReturn
    \/ RunNextRaises
    \/ Raise
    \/ MainExit

Spec == Init /\ [][Next]_vars

----------------------------------------------------------------------------
(* rsync_execute on its own: any additional options, any use_delete *)

ExecOpts ==
    { <<"--files-from=">> \o temp_name, <<"--files-from">>, <<"--no-dirs">>,
      <<"--recursive">> }

InitExec ==
    /\ variant \in {"apt", "dnf"}
    /\ config = <<>>
    /\ retry_settings \in (IF variant = "apt" THEN {DefaultRetrySettings}
                           ELSE RetrySettings)
    /\ upstream = << >>
    /\ runs = 1
    /\ previous = <<>>
    /\ requests = <<>>
    /\ counting = FALSE
    /\ invocations = 0
    /\ pc = "call"
    /\ repoIdx = 0
    /\ pos = 1
    /\ \E opts \in SeqsUpTo(ExecOpts, MaxOpts), use_delete \in BOOLEAN :
          ex = CallFrame(Request("call", <<>>, <<>>, <<>>, <<"mirror::module", SEP>>,
                                 base_dir, opts, use_delete, TRUE, NoTarget))
    /\ tree = << >>
    /\ dirs = {base_dir}
    /\ package_files = {}
    /\ opened = {}
    /\ temp_file = NoTemp
    /\ success_count = 0
    /\ fail_count = 0
    /\ exit_ok = FALSE
    /\ exit_code = -1
    /\ raised = "none"
    /\ results = <<>>
    /\ trace = <<>>

NextExec ==
    \/ ExecuteApt
    \/ DnfAttempt
    \/ DnfExhausted

SpecExec == InitExec /\ [][NextExec]_vars

----------------------------------------------------------------------------
(* Properties *)

MetaKinds == {"release", "binary", "extras", "repodata", "packages", "keyfiles"}

\* The repository of the loop has been synced and sync_repository has returned.
RepoReturned == repoIdx >= 1 /\ Len(results) = repoIdx

RepoFailed == RepoReturned /\ ~results[repoIdx]

\* An event is added to those of the current repository only in the order
\* metadata requests, extraction, pool request: a metadata request follows
\* metadata requests that have returned, the extraction follows every request of
\* sync_dists, each checked one having succeeded, and the pool request follows
\* the extraction.  The events are forgotten only when the next repository starts.
PhaseOrderStep ==
    /\ \/ Len(trace') = Len(trace)
       \/ Len(trace') = Len(trace) + 1
       \/ trace' = <<>> /\ repoIdx' = repoIdx + 1
    /\ Len(trace') = Len(trace) + 1 =>
          LET kind == trace'[Len(trace')].kind
          IN  CASE kind \in MetaKinds ->
                      \A i \in DOMAIN trace :
                         trace[i].kind \in MetaKinds /\ trace[i].ret # "pending"
                [] kind = "extract" ->
                      LET reqs == DistsRequests(repo)
                      IN  /\ Len(trace) = Len(reqs)
                          /\ \A i \in DOMAIN reqs :
                                /\ trace[i].kind = reqs[i].kind
                                /\ (reqs[i].checked => trace[i].ret = "true")
                [] kind = "pool" ->
                      trace # <<>> /\ trace[Len(trace)].kind = "extract"

AptPhaseStep ==
    variant = "apt" =>
       /\ PhaseOrderStep
       /\ (Len(results') = Len(results) + 1 /\ ~results'[Len(results')]
             => /\ pc \in {"meta", "pool"}
                /\ ex.status = "returned"
                /\ ~ex.ret
                /\ ex.outcomes[Len(ex.outcomes)] # "ok")
       /\ \A i \in DOMAIN results : i \in DOMAIN results' /\ results'[i] = results[i]
       /\ (RepoFailed /\ repoIdx' = repoIdx
             => trace' = trace /\ ex' = ex /\ tree' = tree /\ temp_file' = temp_file)

\* C1: in the APT variant the phases of a repository run in the order metadata
\* sync, extraction, pool sync; the repository becomes failed only through a
\* failed transfer of the metadata phase or of the pool phase; a failed result is
\* never changed, and once the repository has failed no transfer and no
\* extraction is issued for it.
C1_PhasesAndFailure == [][AptPhaseStep]_vars

\* A repository that went through all three phases and failed in the pool phase.
C1_Witness ==
    /\ variant = "apt"
    /\ RepoFailed
    /\ Len(trace) >= 3
    /\ trace[Len(trace)].kind = "pool"
    /\ trace[Len(trace)].ret = "false"
    /\ trace[Len(trace) - 1].kind = "extract"

\* C2: run() takes the repositories one at a time in configuration order, each
\* exactly once whatever the earlier ones returned; when it ends, success_count +
\* fail_count is the number of configured repositories and run() returns True
\* exactly when fail_count is zero.
C2_RunSummary ==
    /\ Len(results) <= Len(config)
    /\ \/ repoIdx = Len(results)
       \/ repoIdx = Len(results) + 1 /\ pc \in {"meta", "extract", "pool", "exit"}
    /\ success_count = Cardinality({ i \in DOMAIN results : results[i] })
    /\ fail_count = Cardinality({ i \in DOMAIN results : ~results[i] })
    /\ pc = "done" =>
          /\ Len(results) = Len(config)
          /\ success_count + fail_count = Len(config)
          /\ exit_ok = (fail_count = 0)

\* A finished run whose first repository failed and whose second succeeded.
C2_Witness ==
    /\ pc = "done"
    /\ Len(config) = 2
    /\ results = <<FALSE, TRUE>>
    /\ ~exit_ok

\* C3: whenever a call of rsync_execute made for a repository returned failure,
\* whichever request of the metadata phase or the pool request it was for, the
\* repository is counted as failed.
C3_TerminalFailureFailsRepo ==
    RepoReturned /\ (\E i \in DOMAIN trace : trace[i].ret = "false")
        => ~results[repoIdx]

\* C4: in the APT variant, when the extracted set is empty the repository is
\* returned as successful and no pool transfer is made for it.
C4_EmptySetNoPool ==
    (/\ variant = "apt"
     /\ \E i \in DOMAIN trace : trace[i].kind = "extract"
     /\ package_files = {})
        => /\ RepoReturned
           /\ results[repoIdx]
           /\ pc \in {"run", "done", "exit"}
           /\ \A i \in DOMAIN trace : trace[i].kind # "pool"
           /\ ~temp_file.exists
           /\ ex.status = "idle"

\* A repository whose binary subtree was transferred, no index file exists at
\* any of its coordinates, and the extraction gave the empty set.
C4_Witness ==
    /\ variant = "apt"
    /\ RepoReturned
    /\ \E i \in DOMAIN trace : trace[i].kind = "binary"
    /\ \E i \in DOMAIN trace : trace[i].kind = "extract"
    /\ package_files = {}
    /\ \A s \in Range(repo.suites), c \in Range(repo.components),
          a \in Range(repo.architectures) :
          ~SelectIndex(DirAt(tree, BinaryDir(repo, s, c, a))).exists

\* C5: in the dnf rsync_execute, rsync is invoked at most max_retries times for a
\* request, no attempt follows a successful one, every failed attempt of either
\* kind uses up one attempt of the budget, and the call returns True exactly when
\* one attempt succeeded; it returns False only when the budget is used up or
\* rsync is missing.
C5_RetryBudget ==
    variant = "dnf" =>
       /\ Len(ex.outcomes) <= retry_settings.max_retries
       /\ \A i \in 1..(Len(ex.outcomes) - 1) : ex.outcomes[i] # "ok"
       /\ (ex.status = "running" => ex.attempt = Len(ex.outcomes))
       /\ (ex.status = "returned" =>
             /\ ex.ret <=> (\E i \in DOMAIN ex.outcomes : ex.outcomes[i] = "ok")
             /\ (~ex.ret =>
                    \/ Len(ex.outcomes) = retry_settings.max_retries
                    \/ ex.outcomes[Len(ex.outcomes)] = "not_found"))

\* A call that succeeded on its third and last attempt after a connection-limit
\* failure and another failure.
C5_Witness ==
    /\ variant = "dnf"
    /\ retry_settings.max_retries = 3
    /\ ex.status = "returned"
    /\ ex.ret
    /\ ex.outcomes = <<"max_connections", "failed", "ok">>

\* The part of a backoff sleep without its jitter.
Backoff(k, rs) ==
    IF rs.base_delay * (2 ^ k) < rs.max_delay THEN rs.base_delay * (2 ^ k)
    ELSE rs.max_delay

\* C6: in the dnf rsync_execute exactly one sleep precedes each attempt: before
\* attempt 0 it lies in [0, connection_delay], before attempt k >= 1 in
\* [min(base_delay*2^k, max_delay), min(base_delay*2^k, max_delay) + 2]; with
\* max_retries=3, base_delay=2, max_delay=30 a call whose first two attempts hit
\* the connection limit and whose third succeeds returns True after sleeps within
\* [4, 6] and [8, 10].
C6_Sleeps ==
    variant = "dnf" =>
       /\ Len(ex.sleeps) = Len(ex.outcomes)
       /\ \A n \in DOMAIN ex.sleeps :
             IF n = 1
             THEN 0 <= ex.sleeps[n] /\ ex.sleeps[n] <= retry_settings.connection_delay
             ELSE /\ Backoff(n - 1, retry_settings) <= ex.sleeps[n]
                  /\ ex.sleeps[n] <= Backoff(n - 1, retry_settings) + 2
       /\ (/\ retry_settings = DefaultRetrySettings
           /\ ex.outcomes = <<"max_connections", "max_connections", "ok">>)
             => /\ ex.status = "returned" /\ ex.ret
                /\ ex.sleeps[2] \in 4..6
                /\ ex.sleeps[3] \in 8..10

\* The call of the example, with the largest jitter before the second attempt.
C6_Witness ==
    /\ variant = "dnf"
    /\ retry_settings = DefaultRetrySettings
    /\ ex.status = "returned"
    /\ ex.ret
    /\ ex.outcomes = <<"max_connections", "max_connections", "ok">>
    /\ ex.sleeps[2] = 6
    /\ ex.sleeps[3] = 8

\* C7: in both variants an invocation that finds rsync missing is the last one of
\* its call: rsync_execute has returned False with no further attempt and no
\* further sleep, whatever is left of the budget.
C7_ToolMissing ==
    \A i \in DOMAIN ex.outcomes :
       ex.outcomes[i] = "not_found" =>
          /\ i = Len(ex.outcomes)
          /\ ex.status = "returned"
          /\ ~ex.ret
          /\ Len(ex.sleeps) <= i

\* rsync went missing at the second of three attempts of the dnf variant.
C7_Witness ==
    /\ variant = "dnf"
    /\ retry_settings.max_retries = 3
    /\ ex.status = "returned"
    /\ ex.outcomes = <<"failed", "not_found">>
    /\ Len(ex.sleeps) = 2

HasDeleteOpt(cmd) == \E i \in DOMAIN cmd : cmd[i] \in Range(rsync_delete_opts)

HasFilesFrom(cmd) == \E i \in DOMAIN cmd : StartsWith(cmd[i], <<"--files-from=">>)

\* C8: the pool request never asks for deletion, and no command rsync_execute
\* builds holds deletion options together with a --files-from=<path> option,
\* whatever additional options and use_delete it is called with.
C8_NoDeleteWithFileList ==
    /\ (ex.req.kind = "pool" => ~ex.req.use_delete)
    /\ ~(HasDeleteOpt(ex.cmd) /\ HasFilesFrom(ex.cmd))

IsInclude(opt) == StartsWith(opt, <<"--include=">>)

\* The directories above the path of a pattern: its prefixes that end in "/",
\* the root excluded.
Ancestors(pattern) ==
    { SubSeq(pattern, 1, k) : k \in { n \in 2..(Len(pattern) - 1) : pattern[n] = SEP } }

RulesWellFormed(opts) ==
    /\ opts # <<>>
    /\ opts[Len(opts)] = ExcludeAll
    /\ \A i \in DOMAIN opts :
          IsInclude(opts[i]) =>
             \A anc \in Ancestors(Tail(opts[i])) :
                \E j \in 1..(i - 1) : opts[j] = Include(anc)

\* C9: every filter-rule sequence of the metadata phase ends with the exclude-all
\* rule, and each include rule of a nested path is preceded in it by an include
\* rule for each ancestor directory of the path, whatever the suite and component
\* names are.
C9_RulesWellFormed ==
    pc = "meta" /\ ex.status # "idle" => RulesWellFormed(ex.req.additional_opts)

BinaryRequests(suite, component, arch) ==
    { i \in DOMAIN trace :
        /\ trace[i].kind = "binary"
        /\ trace[i].suite = suite
        /\ trace[i].component = component
        /\ trace[i].arch = arch }

\* C10: when the architecture list holds 'all' and sync_dists has returned True,
\* it issued no binary-subtree request for 'all' and exactly one for each other
\* listed architecture, per suite and component.
C10_BinaryRequests ==
    (/\ variant = "apt"
     /\ pc = "extract"
     /\ ALL \in Range(repo.architectures))
        => \A s \in Range(repo.suites), c \in Range(repo.components),
              a \in Range(repo.architectures) :
              Cardinality(BinaryRequests(s, c, a)) = IF a = ALL THEN 0 ELSE 1

\* sync_dists returned True for two components and the architectures all, amd64.
C10_Witness ==
    /\ variant = "apt"
    /\ pc = "extract"
    /\ repo.architectures = <<ALL, <<"amd64">> >>
    /\ Len(repo.components) = 2
    /\ Cardinality(BinaryRequests(repo.suites[1], <<"contrib">>, <<"amd64">>)) = 1

----------------------------------------------------------------------------
(* The extraction *)

Extracted == \E i \in DOMAIN trace : trace[i].kind = "extract"

StripPool(path) == IF StartsWith(path, <<"pool", SEP>>) THEN Drop(path, 2) ELSE path

\* The (suite, component, architecture) triples the extraction is specified for.
Coordinates(r) ==
    { <<s, c, a>> : s \in Range(r.suites), c \in Range(r.components),
                    a \in Range(r.architectures) \ {ALL} }

SelectedAt(r, t, co) == SelectIndex(DirAt(t, BinaryDir(r, co[1], co[2], co[3])))

\* The value of a 'Filename: ' line: trimmed, without one leading separator.
ValueOf(line) ==
    LET v == Strip(Tail(line))
    IN  IF v # <<>> /\ Head(v) = SEP THEN Tail(v) ELSE v

\* The values of the 'Filename: ' lines among the first n lines of a file.
ValuesUpTo(f, n) ==
    { ValueOf(f.lines[i]) : i \in { j \in 1..n : Head(f.lines[j]) = "Filename: " } }

AllValues(f) == ValuesUpTo(f, Len(f.lines))

\* The values read before the file ends or reading it fails.
ReadValues(f) == ValuesUpTo(f, IF f.err = 0 THEN Len(f.lines) ELSE f.err - 1)

Debian == [name |-> <<"debian">>, suites |-> << <<"x">> >>,
           components |-> << <<"main">> >>,
           architectures |-> << <<"amd64">>, ALL >>]

IsDebian ==
    DOMAIN Debian \subseteq DOMAIN repo /\ \A k \in DOMAIN Debian : repo[k] = Debian[k]

PoolMainA == <<"pool", SEP, "main", SEP, "a.deb">>
PoolMainB == <<"pool", SEP, "main", SEP, "b.deb">>
MainA == <<"main", SEP, "a.deb">>
MainB == <<"main", SEP, "b.deb">>
MainC == <<"main", SEP, "c.deb">>

\* The index of the example: a gzip index listing pool/main/a.deb and
\* pool/main/b.deb, read without error, at the coordinate (x, main, amd64).
ExampleIndexed ==
    /\ IsDebian
    /\ LET f == SelectedAt(repo, tree, << <<"x">>, <<"main">>, <<"amd64">> >>)
       IN  f.exists /\ f.err = 0 /\ AllValues(f) = {PoolMainA, PoolMainB}

----------------------------------------------------------------------------
(* The list file of the pool phase *)

Ascending(lines) ==
    \A i, j \in DOMAIN lines : i < j => ~StrLess(lines[j], lines[i])

\* C12: for a non-empty required set, whether or not its entries carry the
\* 'pool/' prefix, the lines of the list file handed to the pool transfer are in
\* ascending order and are the required paths with their 'pool/' prefix removed.
C12_SortedStrippedList ==
    temp_file.exists /\ package_files # {} =>
       /\ Ascending(temp_file.lines)
       /\ Range(temp_file.lines) = { StripPool(path) : path \in package_files }

----------------------------------------------------------------------------
(* The selection of the index file *)

Formats == <<"gz", "xz", "plain">>

OpenedAt(dir) == { format \in Range(Formats) : <<dir, format>> \in opened }

----------------------------------------------------------------------------
(* Index files that fail to parse *)

\* C14: an index file whose parsing fails, at whatever line, contributes nothing:
\* every extracted path is a value of a selected file that was read to its end.
C14_FailedFileContributesNothing ==
    variant = "apt" /\ Extracted =>
       package_files \subseteq
          UNION { AllValues(SelectedAt(repo, tree, co)) :
                    co \in { x \in Coordinates(repo) : SelectedAt(repo, tree, x).err = 0 } }

----------------------------------------------------------------------------
(* Missing and failing index files *)

\* C15: a missing index file or a parse failure at one coordinate does not end
\* the extraction and does not fail the repository: every coordinate that has an
\* index file had it opened, the paths read from it are in the extracted set, and
\* a repository that has failed after its extraction failed in the pool transfer.
C15_ExtractionGoesOn ==
    variant = "apt" /\ Extracted =>
       /\ \A co \in Coordinates(repo) :
             LET f == SelectedAt(repo, tree, co)
             IN  f.exists =>
                    /\ OpenedAt(BinaryDir(repo, co[1], co[2], co[3])) # {}
                    /\ ReadValues(f) \subseteq package_files
       /\ \A i \in DOMAIN trace : trace[i].kind = "extract" => trace[i].ret = "true"
       /\ (RepoFailed =>
              /\ trace[Len(trace)].kind = "pool"
              /\ trace[Len(trace)].ret = "false")

\* The index of the first coordinate fails to parse, and the paths
\* of the second coordinate, visited after it, are in the extracted set.
C15_Witness ==
    /\ variant = "apt"
    /\ Extracted
    /\ Len(repo.components) = 2
    /\ LET first == SelectedAt(repo, tree, <<repo.suites[1], repo.components[1], <<"amd64">> >>)
           second == SelectedAt(repo, tree, <<repo.suites[1], repo.components[2], <<"amd64">> >>)
       IN  /\ first.err > 0
           /\ second.exists /\ second.err = 0
           /\ ReadValues(second) # {}
           /\ ReadValues(second) \subseteq package_files
           /\ ~(ReadValues(second) \subseteq ReadValues(first))

----------------------------------------------------------------------------
(* sync_pool on its own: any set of paths *)

PoolPaths == {PoolMainA, PoolMainB, MainA, MainC}

InitPool ==
    /\ variant = "apt"
    /\ \E r \in { x \in AptRepos : ~MissingKey("apt", x) } : config = <<r>>
    /\ retry_settings = DefaultRetrySettings
    /\ upstream = << >>
    /\ runs = 1
    /\ previous = <<>>
    /\ requests = <<>>
    /\ counting = FALSE
    /\ invocations = 0
    /\ pc = "pool"
    /\ repoIdx = 1
    /\ pos = 1
    /\ ex = IdleFrame
    /\ tree = << >>
    /\ dirs = {}
    /\ package_files \in SUBSET PoolPaths
    /\ opened = {}
    /\ temp_file = NoTemp
    /\ success_count = 0
    /\ fail_count = 0
    /\ exit_ok = FALSE
    /\ exit_code = -1
    /\ raised = "none"
    /\ results = <<>>
    /\ trace = <<>>

NextPool ==
    \/ PoolWrite
    \/ PoolWriteRaises
    \/ PoolIssue
    \/ ExecuteApt
    \/ PoolReturn
    \/ Raise

SpecPool == InitPool /\ [][NextPool]_vars

C17_ListFileRemoved ==
    pc \in {"run", "done", "exit"} => ~temp_file.exists

----------------------------------------------------------------------------
(* Descriptors that lack a key *)

\* C18: when the descriptor of any configured repository lacks a required key,
\* the run is aborted before rsync_execute is called for any repository, those
\* listed before the deficient one included: no repository is synced, no
\* destination directory is made, and the process ends with status 1.
C18_AbortBeforeAnyTransfer ==
    (\E i \in DOMAIN config : MissingKey(variant, config[i])) =>
       /\ results = <<>>
       /\ dirs = {}
       /\ ex.status = "idle"
       /\ (pc = "exit" /\ raised # "KeyboardInterrupt" =>
              raised = "KeyError" /\ exit_code = 1)

----------------------------------------------------------------------------
(* The exit status *)

\* C19: the process exits with 0 exactly when run() ended with every configured
\* repository succeeded, with 1 when a repository failed and no interrupt
\* arrived, and with 130 exactly when a KeyboardInterrupt arrived, wherever the
\* run was (between repositories, in rsync_execute with its sleep and its
\* transfer, in the extraction, in the pool phase); no other status is given.
C19_ExitStatus ==
    /\ pc # "exit" => exit_code = -1
    /\ pc = "exit" =>
          /\ exit_code \in {0, 1, 130}
          /\ exit_code = 0 <=>
                /\ raised = "none"
                /\ Len(results) = Len(config)
                /\ \A i \in DOMAIN results : results[i]
          /\ (raised # "KeyboardInterrupt" /\ \E i \in DOMAIN results : ~results[i])
                => exit_code = 1
          /\ exit_code = 130 <=> raised = "KeyboardInterrupt"

\* The first repository failed, and the interrupt arrived while the pool
\* transfer of the second was running: the status is 130.
C19_Witness ==
    /\ variant = "apt"
    /\ pc = "exit"
    /\ raised = "KeyboardInterrupt"
    /\ exit_code = 130
    /\ results = <<FALSE>>
    /\ trace # <<>>
    /\ trace[Len(trace)].kind = "pool"
    /\ trace[Len(trace)].ret = "pending"

----------------------------------------------------------------------------
(* Two runs in a row: the upstream does not change and rsync does not fail *)

TargetsOf(repos) ==
    UNION { { BinaryDir(r, s, c, a) :
                s \in Range(r.suites), c \in Range(r.components),
                a \in Range(r.architectures) \ {ALL} } : r \in Range(repos) }

\* What an earlier sync against another upstream has left in a directory.
StaleDir ==
    [gz |-> IndexFile(<< FilenameLine(<<"pool", SEP, "main", SEP, "old.deb">>) >>, 0),
     xz |-> NoFile, plain |-> NoFile]

InitTwice ==
    /\ \E vc \in Configs :
          /\ variant = vc[1]
          /\ config = vc[2]
          /\ \A i \in DOMAIN config : ~MissingKey(variant, config[i])
    /\ retry_settings = DefaultRetrySettings
    /\ upstream \in (IF variant = "apt" THEN [TargetsOf(config) -> IndexDirs] ELSE {<< >>})
    /\ runs = 2
    /\ previous = <<>>
    /\ requests = <<>>
    /\ counting = FALSE
    /\ invocations = 0
    /\ pc = "run"
    /\ repoIdx = 0
    /\ pos = 1
    /\ ex = IdleFrame
    /\ tree \in (IF variant = "apt" THEN {<< >>, [t \in TargetsOf(config) |-> StaleDir]}
                 ELSE {<< >>})
    /\ dirs = {}
    /\ package_files = {}
    /\ opened = {}
    /\ temp_file = NoTemp
    /\ success_count = 0
    /\ fail_count = 0
    /\ exit_ok = FALSE
    /\ exit_code = -1
    /\ raised = "none"
    /\ results = <<>>
    /\ trace = <<>>

\* The process has exited and the script is started again: the destination tree
\* and the files on disk are what the run left, the state of the process is new.
Rerun ==
    /\ pc = "exit"
    /\ Len(previous) + 1 < runs
    /\ previous' = Append(previous, [tree |-> tree, dirs |-> dirs, requests |-> requests,
                                     results |-> results, exit_code |-> exit_code])
    /\ requests' = <<>>
    /\ pc' = "run"
    /\ repoIdx' = 0
    /\ pos' = 1
    /\ ex' = IdleFrame
    /\ package_files' = {}
    /\ opened' = {}
    /\ success_count' = 0
    /\ fail_count' = 0
    /\ exit_ok' = FALSE
    /\ exit_code' = -1
    /\ raised' = "none"
    /\ results' = <<>>
    /\ trace' = <<>>
    /\ invocations' = 0
    /\ UNCHANGED counting
    /\ UNCHANGED <<variant, config, retry_settings, upstream, runs, tree, dirs,
                   temp_file>>

\* The invocation of rsync that has just been made succeeded.
InvocationSucceeded == ex.outcomes # <<>> /\ ex.outcomes[Len(ex.outcomes)] = "ok"

NextTwice ==
    \/ RunNext
    \/ RunFinish
    \/ MetaIssue
    \/ ExecuteApt /\ InvocationSucceeded'
    \/ DnfAttempt /\ InvocationSucceeded'
    \/ MetaReturn
    \/ MetaDone
    \/ Extract
    \/ PoolWrite
    \/ PoolIssue
    \/ PoolReturn
    \/ MainExit
    \/ Rerun

SpecTwice == InitTwice /\ [][NextTwice]_vars

AllSucceeded(res) == Len(res) = Len(config) /\ \A i \in DOMAIN res : res[i]

\* C20: when the script is run twice in a row against an upstream that does not
\* change, with an rsync that does not fail, each run ends with every repository
\* succeeded, and the second run leaves the destination tree as the first left
\* it and has issued the same calls of rsync_execute (source, destination,
\* options, deletion) with the same list-file contents, in the same order.
C20_SecondRunSame ==
    pc = "exit" =>
       /\ exit_code = 0
       /\ AllSucceeded(results)
       /\ previous # <<>> =>
             /\ previous[1].exit_code = 0
             /\ AllSucceeded(previous[1].results)
             /\ tree = previous[1].tree
             /\ dirs = previous[1].dirs
             /\ requests = previous[1].requests

\* The second run of two repositories has ended; it made a pool transfer with a
\* list of two paths, as the first run did.
C20_Witness ==
    /\ pc = "exit"
    /\ previous # <<>>
    /\ Len(config) = 2
    /\ \E i \in DOMAIN requests :
          /\ requests[i].req.kind = "pool"
          /\ Len(requests[i].lines) >= 2
          /\ previous[1].requests[i] = requests[i]

----------------------------------------------------------------------------
(* extract_package_files on its own: any destination tree, called repeatedly *)

InitExtract ==
    /\ variant = "apt"
    /\ \E c \in SeqsUpTo({ x \in AptRepos : ~MissingKey("apt", x) }, MaxRepos) :
          /\ c # <<>>
          /\ config = c
    /\ retry_settings = DefaultRetrySettings
    /\ upstream = << >>
    /\ runs = 1
    /\ previous = <<>>
    /\ requests = <<>>
    /\ counting = FALSE
    /\ invocations = 0
    /\ pc = "extract"
    /\ repoIdx \in DOMAIN config
    /\ pos = 1
    /\ ex = IdleFrame
    /\ tree \in [TargetsOf(config) -> IndexDirs]
    /\ dirs = {}
    /\ package_files = {}
    /\ opened = {}
    /\ temp_file = NoTemp
    /\ success_count = 0
    /\ fail_count = 0
    /\ exit_ok = FALSE
    /\ exit_code = -1
    /\ raised = "none"
    /\ results = <<>>
    /\ trace = <<>>

\* one call of extract_package_files(repo)
ExtractCall ==
    /\ pc = "extract"
    /\ Len(trace) < MaxCalls
    /\ package_files' = extract_package_files(repo, tree)
    /\ opened' = opened_files(repo, tree)
    /\ trace' = Append(trace, ExtractEntry)
    /\ UNCHANGED <<counting, invocations>>
    /\ UNCHANGED <<variant, config, retry_settings, upstream, runs, previous, requests,
                   pc, repoIdx, pos, ex, tree, dirs, temp_file, success_count,
                   fail_count, exit_ok, exit_code, raised, results>>

NextExtract == ExtractCall

SpecExtract == InitExtract /\ [][NextExtract]_vars

----------------------------------------------------------------------------
(* The coordinates of the extraction and of the binary requests *)

BinaryRequested ==
    { <<trace[i].suite, trace[i].component, trace[i].arch>> :
        i \in { j \in DOMAIN trace : trace[j].kind = "binary" } }

\* C22: in the APT variant the coordinates at which the extraction looks for an
\* index are those for which sync_dists, having returned True, requested the
\* binary subtree: neither holds a coordinate of the architecture 'all', and every
\* opened index lies at one of them; when 'all' is the only architecture no index
\* is consulted, the extracted set is empty and no pool transfer is made.
C22_SameCoordinates ==
    variant = "apt" /\ Extracted =>
       /\ consulted_coordinates(repo) = BinaryRequested
       /\ \A co \in BinaryRequested : co[3] # ALL
       /\ \A df \in opened :
             \E co \in BinaryRequested : df[1] = BinaryDir(repo, co[1], co[2], co[3])
       /\ Range(repo.architectures) = {ALL} =>
             /\ BinaryRequested = {}
             /\ opened = {}
             /\ package_files = {}
             /\ \A i \in DOMAIN trace : trace[i].kind # "pool"
             /\ RepoReturned /\ results[repoIdx]

\* The extraction of a repository with two components and the architectures
\* all, amd64: two binary requests, and the index of each was opened.
C22_Witness ==
    /\ variant = "apt"
    /\ Extracted
    /\ ALL \in Range(repo.architectures)
    /\ Cardinality(BinaryRequested) = 2
    /\ Cardinality(opened) = 2

----------------------------------------------------------------------------
(* Repeated paths in the list file *)

\* C23: the list file written for the pool transfer holds each path at most
\* once, whatever the required set is, also when it holds both 'pool/p' and 'p'.
C23_NoRepeatedLine ==
    temp_file.exists =>
       \A i, j \in DOMAIN temp_file.lines :
          i # j => temp_file.lines[i] # temp_file.lines[j]

----------------------------------------------------------------------------
(* The cap of the backoff *)

\* The least delay the executor may sleep before attempt k: the delay without
\* its jitter.
Unjittered(k, rs) ==
    CHOOSE d \in SleepChoices(k, rs) : \A e \in SleepChoices(k, rs) : d <= e

\* C24: in the dnf rsync_execute no sleep before a retry is longer than
\* max_delay + 2, whatever base_delay, max_delay and the attempt are, and the
\* delay without its jitter does not decrease from one retry to the next.
C24_BackoffCapped ==
    variant = "dnf" =>
       /\ \A n \in 2..Len(ex.sleeps) : ex.sleeps[n] <= retry_settings.max_delay + 2
       /\ \A k \in 1..(Len(ex.sleeps) - 1) :
             /\ Unjittered(k, retry_settings) <= retry_settings.max_delay
             /\ Unjittered(k, retry_settings) <= Unjittered(k + 1, retry_settings)

\* A call whose backoff before the third attempt is cut to max_delay, with the
\* largest jitter added to it.
C24_Witness ==
    /\ variant = "dnf"
    /\ Len(ex.sleeps) >= 3
    /\ retry_settings.base_delay * 4 > retry_settings.max_delay
    /\ retry_settings.base_delay * 2 < retry_settings.max_delay
    /\ ex.sleeps[3] = retry_settings.max_delay + 2

----------------------------------------------------------------------------
(* A budget of no attempts *)

HasCoordinate(r) ==
    /\ r.architectures # <<>>
    /\ \E v \in Range(r.versions) : v \in DOMAIN r.repos /\ r.repos[v] # <<>>

\* C25: in the DNF variant with max_retries zero or negative, rsync_execute
\* returns False without a sleep and without an invocation of rsync, and every
\* repository that has a coordinate is counted as failed.
C25_NoAttempts ==
    variant = "dnf" /\ retry_settings.max_retries <= 0 =>
       /\ ex.outcomes = <<>>
       /\ ex.sleeps = <<>>
       /\ ex.cmd = <<>>
       /\ (ex.status = "returned" => ~ex.ret)
       /\ \A i \in DOMAIN results : HasCoordinate(config[i]) => ~results[i]

\* With max_retries = -1 the first repository, which has a coordinate, failed
\* at its first request, and the second, which has none, succeeded.
C25_Witness ==
    /\ variant = "dnf"
    /\ retry_settings.max_retries = -1
    /\ Len(results) = 2
    /\ HasCoordinate(config[1]) /\ ~results[1]
    /\ ~HasCoordinate(config[2]) /\ results[2]

----------------------------------------------------------------------------
(* A run with its invocations of rsync counted *)

\* The attempts one call of rsync_execute may make.
AttemptBudget ==
    IF variant = "apt" THEN 1
    ELSE IF retry_settings.max_retries > 0 THEN retry_settings.max_retries ELSE 0

RECURSIVE SumLen(_)
SumLen(seqs) == IF seqs = <<>> THEN 0 ELSE Len(Head(seqs)) + SumLen(Tail(seqs))

\* The coordinates a descriptor configures: suite x component x architecture, or
\* version x repository name x architecture.
ConfiguredCoordinates(v, r) ==
    IF MissingKey(v, r) THEN 0
    ELSE IF v = "apt" THEN Len(r.suites) * Len(r.components) * Len(r.architectures)
    ELSE SumLen([i \in DOMAIN r.versions |-> RepoList(r, r.versions[i])])
            * Len(r.architectures)

\* The calls of rsync_execute a descriptor can lead to.
ConfiguredCalls(v, r) ==
    IF MissingKey(v, r) THEN 0
    ELSE IF v = "apt"
    THEN Len(r.suites)
            * (1 + Len(r.components)
                      * (1 + Cardinality({i \in DOMAIN r.architectures :
                                             r.architectures[i] # ALL})))
         + 1
    ELSE 3 * ConfiguredCoordinates(v, r)

RECURSIVE TotalCoordinates(_, _)
TotalCoordinates(v, c) ==
    IF c = <<>> THEN 0
    ELSE ConfiguredCoordinates(v, Head(c)) + TotalCoordinates(v, Tail(c))

RECURSIVE TotalCalls(_, _)
TotalCalls(v, c) ==
    IF c = <<>> THEN 0 ELSE ConfiguredCalls(v, Head(c)) + TotalCalls(v, Tail(c))

\* Retry settings with a negative number of attempts.
NegativeRetrySettings ==
    [max_retries |-> -1, base_delay |-> 2, max_delay |-> 30, connection_delay |-> 1]

\* The configurations of up to MaxRepos descriptors each of which leads to at
\* most four calls of rsync_execute.
CountedConfigs ==
    { vc \in Configs : \A n \in DOMAIN vc[2] : ConfiguredCalls(vc[1], vc[2][n]) <= 4 }

InitCount ==
    /\ \E vc \in CountedConfigs : variant = vc[1] /\ config = vc[2]
    /\ retry_settings \in (IF variant = "apt" THEN {DefaultRetrySettings}
                           ELSE ConfiguredRetrySettings \cup {NegativeRetrySettings})
    /\ upstream = << >>
    /\ runs = 1
    /\ previous = <<>>
    /\ requests = <<>>
    /\ counting = TRUE
    /\ invocations = 0
    /\ pc = "run"
    /\ repoIdx = 0
    /\ pos = 1
    /\ ex = IdleFrame
    /\ tree = << >>
    /\ dirs = {}
    /\ package_files = {}
    /\ opened = {}
    /\ temp_file = NoTemp
    /\ success_count = 0
    /\ fail_count = 0
    /\ exit_ok = FALSE
    /\ exit_code = -1
    /\ raised = "none"
    /\ results = <<>>
    /\ trace = <<>>

\* The steps of a run in which nothing but the outcomes of the transfers and the
\* configuration is left open: no interrupt, no exception from outside.
NextCount ==
    \/ RunNext
    \/ RunFinish
    \/ MetaIssue
    \/ ExecuteApt
    \/ DnfAttempt
    \/ DnfExhausted
    \/ MetaReturn
    \/ MetaDone
    \/ Extract
    \/ PoolWrite
    \/ PoolIssue
    \/ PoolReturn
    \/ RunNextRaises
    \/ MainExit

\* The script is one sequential process and every call it makes blocks until it
\* returns: a step that can be taken is taken.
SpecCount == InitCount /\ [][NextCount]_vars /\ WF_vars(NextCount)

\* C26 as stated, its bound on the run: the invocations of rsync in a run are at
\* most the number of configured coordinates times the attempt budget.
C26_BoundedByCoordinates ==
    counting => invocations <= TotalCoordinates(variant, config) * AttemptBudget

CallBounded ==
    /\ Len(ex.outcomes) <= AttemptBudget
    /\ invocations <= TotalCalls(variant, config) * AttemptBudget

\* C26: a run of either variant ends, whatever the outcomes of the transfers:
\* every call of rsync_execute makes at most max_retries invocations of rsync
\* (one in the APT variant), and the invocations of a run are at most the number
\* of calls of rsync_execute the configuration leads to (three per coordinate in
\* the DNF variant; per suite one, per component one, per component and
\* architecture other than 'all' one, and one for the pool in the APT variant)
\* times that budget.
C26_Terminates == [](counting => CallBounded) /\ <>(pc = "exit")

\* A run that has ended after as many invocations as the calls allow, which are
\* more than the coordinates allow.
C26_Witness ==
    /\ counting
    /\ pc = "exit"
    /\ raised = "none"
    /\ invocations = TotalCalls(variant, config) * AttemptBudget
    /\ invocations > TotalCoordinates(variant, config) * AttemptBudget

====
